---- MODULE Spec2Model ----
(***************************************************************************)
(* State-machine model of three React components of fusion-bmt:            *)
(*   ActionCreateForm       (src/unnamed/part_000, lines 1-190)             *)
(*   QuestionAndAnswerForm  (src/unnamed/part_000, lines 191-265)           *)
(*   NominationView         (src/frontend/.../NominationView.tsx)           *)
(* Hook state (useState) is a variable, a useEffect body is an action that  *)
(* is enabled while its dependency list has changed since it last ran, an   *)
(* event handler is one atomic action.  Every call a handler makes on a     *)
(* callback prop is logged in `calls`, which holds the calls of the most    *)
(* recent handler only; `lastEvent` names that handler.                     *)
(***************************************************************************)
EXTENDS Integers, Sequences, FiniteSets, TLC

VARIABLES
    \* ---- ActionCreateForm: props
    connectedQuestion, possibleAssignees, possibleAssigneesDetails,
    \* ---- ActionCreateForm: useState cells
    title, titleValidity, assignedToId, assignedToValidity,
    dueDate, priority, description,
    \* ---- ActionCreateForm: effects whose dependencies changed and that have not run yet
    titleEffectPending, assigneeEffectPending,
    \* ---- the wall clock read by `new Date()`
    now,
    \* ---- QuestionAndAnswerForm: props
    answer,
    \* ---- NominationView: props, hook state, Apollo state
    evaluation, azureUniqueId, panelOpen,
    loadingQuery, errorQuery, errorMutation, cache, inFlight, queriesSent, created,
    \* ---- NominationView: what the last render put on the screen
    screen,
    \* ---- the callback-prop calls made by the most recent handler, and its name
    calls, lastEvent

formVars == <<connectedQuestion, possibleAssignees, possibleAssigneesDetails,
              title, titleValidity, assignedToId, assignedToValidity,
              dueDate, priority, description,
              titleEffectPending, assigneeEffectPending, now>>
qaVars   == <<answer>>
nomVars  == <<evaluation, azureUniqueId, panelOpen, loadingQuery, errorQuery,
              errorMutation, cache, inFlight, queriesSent, created, screen>>
vars     == <<formVars, qaVars, nomVars, calls, lastEvent>>

-----------------------------------------------------------------------------
(* Bounds of the model *)

\* the clock takes the values 0..MaxTime
MaxTime == 1
\* createParticipant mutations issued in one behaviour
MaxMutations == 2
\* participant queries sent over the network in one behaviour
MaxQueries == 2

-----------------------------------------------------------------------------
(* Values *)

\* JavaScript `undefined` for string-valued cells; an optional object is a
\* sequence of length 0 (undefined) or 1
Undefined == "undefined"

Validity      == {"default", "error", "success"}
Priority      == {"High", "Medium", "Low"}
Role          == {"Facilitator", "OrganizationLead", "TeamMember"}
Progression   == {"Nomination", "Preparation", "Alignment", "Workshop"}
Organization  == {"Engineering", "Construction"}
Severity      == {"High", "Limited", "Low", "NA"}
AzureIds      == {"u1", "u2", "u3"}

Participant(i, u, r) == [id |-> i, azureUniqueId |-> u, role |-> r, organization |-> "Engineering"]
PersonDetails(u)     == [azureUniqueId |-> u, name |-> u]

Call(f, args) == [fn |-> f, arg |-> args]

\* Array.prototype.find(p => p.azureUniqueId === uid): the first match, or undefined
find(ps, uid) ==
    LET I == {i \in 1..Len(ps) : ps[i].azureUniqueId = uid}
    IN  IF I = {} THEN <<>>
        ELSE <<ps[CHOOSE i \in I : \A j \in I : i <= j]>>


-----------------------------------------------------------------------------
(* ActionCreateForm *)

Titles       == {"", "a", "b"}
Descriptions == {"", "d"}
Questions    == {"q1", "q2"}
Dates        == 0..MaxTime

P1 == Participant(1, "u1", "Facilitator")
P2 == Participant(2, "u2", "TeamMember")

\* The props the owner may pass: the assignees and the person details shown in
\* the dropdown.  The last choice lists a person whose participant is missing.
AssigneeProps ==
    { [assignees |-> <<>>,       details |-> <<>>],
      [assignees |-> <<P1, P2>>, details |-> <<PersonDetails("u1"), PersonDetails("u2")>>],
      [assignees |-> <<P1>>,     details |-> <<PersonDetails("u1"), PersonDetails("u2")>>] }

checkIfTitleValid(t) == Len(t) > 0

checkIfParticipantValid(participant) == participant # <<>>

\* const assignedTo = possibleAssignees.find(a => a.azureUniqueId === assignedToId)
assignedToOf(assignees, id) == find(assignees, id)

assignedTo == assignedToOf(possibleAssignees, assignedToId)

assigneesOptions ==
    [i \in 1..Len(possibleAssigneesDetails) |->
        [title      |-> possibleAssigneesDetails[i].name,
         key        |-> possibleAssigneesDetails[i].azureUniqueId,
         isSelected |-> possibleAssigneesDetails[i].azureUniqueId = assignedToId]]

\* what the two validated controls show
titleHelperText    == IF titleValidity = "error" THEN "required" ELSE ""
assignedToError    == assignedToValidity = "error"

\* the state after the first render; both effects run once after mount
FormInit ==
    /\ connectedQuestion \in Questions
    /\ \E pr \in AssigneeProps :
          /\ possibleAssignees = pr.assignees
          /\ possibleAssigneesDetails = pr.details
    /\ title = ""
    /\ titleValidity = "default"
    /\ assignedToId = Undefined
    /\ assignedToValidity = "default"
    /\ now = 0
    /\ dueDate = now
    /\ priority = "High"
    /\ description = ""
    /\ titleEffectPending = TRUE
    /\ assigneeEffectPending = TRUE

\* a handler of the form that calls no callback prop
FormEvent(name) ==
    /\ lastEvent' = name
    /\ calls' = <<>>
    /\ UNCHANGED <<qaVars, nomVars>>

\* onChange of the title TextField: setTitle(event.target.value)
setTitle(v) ==
    /\ title' = v
    /\ titleEffectPending' = (titleEffectPending \/ v # title)
    /\ FormEvent("setTitle")
    /\ UNCHANGED <<connectedQuestion, possibleAssignees, possibleAssigneesDetails,
                   titleValidity, assignedToId, assignedToValidity, dueDate, priority,
                   description, assigneeEffectPending, now>>

\* onSelect of the SearchableDropdown: setAssignedToId(option.key)
setAssignedToId(i) ==
    /\ assignedToId' = assigneesOptions[i].key
    /\ assigneeEffectPending' =
          (assigneeEffectPending
             \/ assignedToOf(possibleAssignees, assigneesOptions[i].key) # assignedTo)
    /\ FormEvent("setAssignedToId")
    /\ UNCHANGED <<connectedQuestion, possibleAssignees, possibleAssigneesDetails,
                   title, titleValidity, assignedToValidity, dueDate, priority,
                   description, titleEffectPending, now>>

\* onChange of the DatePicker: setDueDate(newDate !== null ? newDate : new Date());
\* newDate is <<>> for null
setDueDate(newDate) ==
    /\ dueDate' = IF newDate # <<>> THEN newDate[1] ELSE now
    /\ FormEvent("setDueDate")
    /\ UNCHANGED <<connectedQuestion, possibleAssignees, possibleAssigneesDetails,
                   title, titleValidity, assignedToId, assignedToValidity, priority,
                   description, titleEffectPending, assigneeEffectPending, now>>

\* onSelect of the priority Select: setPriority(option.key)
setPriority(key) ==
    /\ priority' = key
    /\ FormEvent("setPriority")
    /\ UNCHANGED <<connectedQuestion, possibleAssignees, possibleAssigneesDetails,
                   title, titleValidity, assignedToId, assignedToValidity, dueDate,
                   description, titleEffectPending, assigneeEffectPending, now>>

\* onChange of the description TextField: setDescription(event.target.value)
setDescription(v) ==
    /\ description' = v
    /\ FormEvent("setDescription")
    /\ UNCHANGED <<connectedQuestion, possibleAssignees, possibleAssigneesDetails,
                   title, titleValidity, assignedToId, assignedToValidity, dueDate,
                   priority, titleEffectPending, assigneeEffectPending, now>>

\* variant of titleEffectResult: an empty title is marked before any click
titleEffectResult_eager(validity, t) ==
    IF ~checkIfTitleValid(t) THEN "error"
    ELSE IF validity = "error" THEN "success" ELSE validity

\* the value the title effect leaves in titleValidity
titleEffectResult(validity, t) ==
    IF validity = "error"
    THEN IF checkIfTitleValid(t) THEN "success" ELSE validity
    ELSE IF validity = "success"
         THEN IF ~checkIfTitleValid(t) THEN "error" ELSE validity
         ELSE validity

\* useEffect(..., [title, titleValidity])
titleEffect ==
    /\ titleEffectPending
    /\ titleValidity' = titleEffectResult(titleValidity, title)
    /\ titleEffectPending' = (titleValidity' # titleValidity)
    /\ FormEvent("titleEffect")
    /\ UNCHANGED <<connectedQuestion, possibleAssignees, possibleAssigneesDetails,
                   title, assignedToId, assignedToValidity, dueDate, priority,
                   description, assigneeEffectPending, now>>

\* variant of assigneeEffectResult: success is never taken back
assigneeEffectResult_noInvalidate(validity, participant) ==
    IF validity = "error" /\ checkIfParticipantValid(participant) THEN "success" ELSE validity

\* the value the assignee effect leaves in assignedToValidity
assigneeEffectResult(validity, participant) ==
    IF validity = "error"
    THEN IF checkIfParticipantValid(participant) THEN "success" ELSE validity
    ELSE IF validity = "success"
         THEN IF ~checkIfParticipantValid(participant) THEN "error" ELSE validity
         ELSE validity

\* useEffect(..., [assignedTo]): a change of assignedToValidity alone does not
\* schedule it again
assigneeEffect ==
    /\ assigneeEffectPending
    /\ assignedToValidity' = assigneeEffectResult(assignedToValidity, assignedTo)
    /\ assigneeEffectPending' = FALSE
    /\ FormEvent("assigneeEffect")
    /\ UNCHANGED <<connectedQuestion, possibleAssignees, possibleAssigneesDetails,
                   title, titleValidity, assignedToId, dueDate, priority,
                   description, titleEffectPending, now>>

\* variant of newAction: the default priority instead of the selected one
newAction_defaultPriority ==
    [id          |-> "",
     title       |-> title,
     assignedTo  |-> assignedTo[1],
     description |-> description,
     priority    |-> "High",
     dueDate     |-> dueDate,
     onHold      |-> FALSE,
     createDate  |-> now,
     notes       |-> <<>>,
     question    |-> connectedQuestion]

\* the Action built at lines 92-103
newAction ==
    [id          |-> "",
     title       |-> title,
     assignedTo  |-> assignedTo[1],
     description |-> description,
     priority    |-> priority,
     dueDate     |-> dueDate,
     onHold      |-> FALSE,
     createDate  |-> now,
     notes       |-> <<>>,
     question    |-> connectedQuestion]

\* the calls of onLocalCreateClick on the callback props
createClickCalls(isTitleValid, isParticipantValid) ==
    IF ~isTitleValid \/ ~isParticipantValid
    THEN <<>>
    ELSE <<Call("onActionCreate", <<newAction>>)>>

\* variant of createClickValidity: a failed click marks both fields
createClickValidity_always(isValid, validity) == "error"

\* the validity a field has after onLocalCreateClick
createClickValidity(isValid, validity) ==
    IF ~isValid THEN "error" ELSE validity

\* onClick of the Create button
onLocalCreateClick ==
    LET isTitleValid       == checkIfTitleValid(title)
        isParticipantValid == checkIfParticipantValid(assignedTo)
    IN  /\ titleValidity' = createClickValidity(isTitleValid, titleValidity)
        /\ assignedToValidity' = createClickValidity(isParticipantValid, assignedToValidity)
        /\ titleEffectPending' = (titleEffectPending \/ titleValidity' # titleValidity)
        /\ calls' = createClickCalls(isTitleValid, isParticipantValid)
        /\ lastEvent' = "onLocalCreateClick"
        /\ UNCHANGED <<connectedQuestion, possibleAssignees, possibleAssigneesDetails,
                       title, assignedToId, dueDate, priority, description,
                       assigneeEffectPending, now>>
        /\ UNCHANGED <<qaVars, nomVars>>

\* onClick of the Cancel button: the prop is called, the form's state is kept
onCancelClick ==
    /\ calls' = <<Call("onCancelClick", <<>>)>>
    /\ lastEvent' = "onCancelClick"
    /\ UNCHANGED <<formVars, qaVars, nomVars>>

\* the owner renders the form again with other assignees
formPropsChange ==
    /\ \E pr \in AssigneeProps :
          /\ possibleAssignees' = pr.assignees
          /\ possibleAssigneesDetails' = pr.details
          /\ assigneeEffectPending' =
                (assigneeEffectPending \/ assignedToOf(pr.assignees, assignedToId) # assignedTo)
    /\ FormEvent("formPropsChange")
    /\ UNCHANGED <<connectedQuestion, title, titleValidity, assignedToId,
                   assignedToValidity, dueDate, priority, description,
                   titleEffectPending, now>>

\* time passes
tick ==
    /\ now < MaxTime
    /\ now' = now + 1
    /\ FormEvent("tick")
    /\ UNCHANGED <<connectedQuestion, possibleAssignees, possibleAssigneesDetails,
                   title, titleValidity, assignedToId, assignedToValidity, dueDate,
                   priority, description, titleEffectPending, assigneeEffectPending>>

\* A handler may run while an effect is still pending: React runs the effects
\* of a render before the next render, not before the next event.  The
\* effects compare assignedTo by value; a run more (a new object with the same
\* fields) writes nothing that a pending run would not write.
FormNext ==
    \/ \E v \in Titles : setTitle(v)
    \/ \E i \in 1..Len(possibleAssigneesDetails) : setAssignedToId(i)
    \/ \E d \in {<<>>} \cup {<<t>> : t \in Dates} : setDueDate(d)
    \/ \E k \in Priority : setPriority(k)
    \/ \E v \in Descriptions : setDescription(v)
    \/ titleEffect
    \/ assigneeEffect
    \/ onLocalCreateClick
    \/ onCancelClick
    \/ formPropsChange
    \/ tick


-----------------------------------------------------------------------------
(* QuestionAndAnswerForm *)

Texts   == {"", "x", "y"}
Answers == [id : {"a1", "a2"}, progression : {"Nomination", "Preparation"},
            severity : Severity, text : Texts]

QAInit == answer \in Answers

\* variant of withSeverity: the patch alone, without the spread
withSeverity_patch(a, severity) == [severity |-> severity]

\* { ...answer, severity: severity }
withSeverity(a, severity) == [a EXCEPT !.severity = severity]

\* { ...answer, text: text }
withText(a, text) == [a EXCEPT !.text = text]

\* onSeveritySelected of AnswerSeverityForm
onSeveritySelected(severity) ==
    /\ calls' = <<Call("onAnswerChange", <<withSeverity(answer, severity)>>)>>
    /\ lastEvent' = "onSeveritySelected"
    /\ UNCHANGED <<answer, formVars, nomVars>>

\* onMarkdownChange of AnswerMarkdownForm
onMarkdownChange(text) ==
    /\ calls' = <<Call("onAnswerChange", <<withText(answer, text)>>)>>
    /\ lastEvent' = "onMarkdownChange"
    /\ UNCHANGED <<answer, formVars, nomVars>>

\* the owner renders the panel again with another answer
answerPropChange ==
    /\ answer' \in Answers
    /\ calls' = <<>>
    /\ lastEvent' = "answerPropChange"
    /\ UNCHANGED <<formVars, nomVars>>

QANext ==
    \/ \E severity \in Severity : onSeveritySelected(severity)
    \/ \E text \in Texts : onMarkdownChange(text)
    \/ answerPropChange


-----------------------------------------------------------------------------
(* NominationView *)

EvalIds    == {"e1", "e2"}
\* the nominees the dialog offers: a person with a role and an organization
Nominees   == { <<"u3", "Facilitator", "Engineering">>, <<"u3", "TeamMember", "Construction">> }

\* utils/RoleBasedAccess: Facilitators and OrganizationLeads
participantCanProgressEvaluation(role) == role \in {"Facilitator", "OrganizationLead"}

participantCanAddParticipant(role) == role \in {"Facilitator", "OrganizationLead"}

\* variant of disableProgression: the role check alone
disableProgression_anyStage(ev, uid) ==
    LET loggedInUser == find(ev.participants, uid)
    IN  IF loggedInUser = <<>> THEN TRUE
        ELSE ~participantCanProgressEvaluation(loggedInUser[1].role)

disableProgression(ev, uid) ==
    IF ev.progression # "Nomination" THEN TRUE
    ELSE LET loggedInUser == find(ev.participants, uid)
         IN  IF loggedInUser = <<>> THEN TRUE
             ELSE ~participantCanProgressEvaluation(loggedInUser[1].role)

\* variant of disableAddParticipant: open at the Nomination stage only
disableAddParticipant_atNomination(ev, uid) ==
    IF ev.progression # "Nomination" THEN TRUE
    ELSE LET loggedInUser == find(ev.participants, uid)
         IN  IF loggedInUser = <<>> THEN TRUE
             ELSE ~participantCanAddParticipant(loggedInUser[1].role)

disableAddParticipant(ev, uid) ==
    LET loggedInUser == find(ev.participants, uid)
    IN  IF loggedInUser = <<>> THEN TRUE
        ELSE ~participantCanAddParticipant(loggedInUser[1].role)

\* useParticipantsQuery: participants = data?.participants, the cached list of
\* the evaluation's query once it has loaded
participants ==
    IF loadingQuery \/ errorQuery # Undefined THEN <<>> ELSE cache[evaluation.id]

\* variant of view: the mutation error is looked at before the loading flag
view_mutationErrorFirst ==
    IF errorMutation # Undefined THEN "mutationError"
    ELSE IF loadingQuery THEN "loading"
    ELSE IF errorQuery # Undefined \/ participants = <<>> THEN "queryError"
    ELSE "loaded"

\* the branch of NominationView's render, lines 74-94
view ==
    IF loadingQuery THEN "loading"
    ELSE IF errorMutation # Undefined THEN "mutationError"
    ELSE IF errorQuery # Undefined \/ participants = <<>> THEN "queryError"
    ELSE "loaded"

\* variant of render: the controls stay on the screen with the mutation error
render_controlsOnError ==
    [text   |-> IF view = "loading" THEN "Loading..."
                ELSE IF view = "mutationError" THEN "Could not add participant"
                ELSE IF view = "queryError" THEN "Could not load participants"
                ELSE "",
     finish |-> IF view \in {"loaded", "mutationError"}
                THEN IF disableProgression(evaluation, azureUniqueId) THEN "disabled" ELSE "enabled"
                ELSE "absent",
     add    |-> IF view \in {"loaded", "mutationError"}
                THEN IF disableAddParticipant(evaluation, azureUniqueId) THEN "disabled" ELSE "enabled"
                ELSE "absent",
     table  |-> IF view = "loaded" THEN participants ELSE <<>>,
     dialog |-> IF view \in {"loaded", "mutationError"}
                THEN IF panelOpen THEN "open" ELSE "closed"
                ELSE "absent"]

\* what NominationView returns: the message of a placeholder or error branch,
\* or the two buttons, the table and the dialog of the loaded view
render ==
    [text   |-> IF view = "loading" THEN "Loading..."
                ELSE IF view = "mutationError" THEN "Could not add participant"
                ELSE IF view = "queryError" THEN "Could not load participants"
                ELSE "",
     finish |-> IF view = "loaded"
                THEN IF disableProgression(evaluation, azureUniqueId) THEN "disabled" ELSE "enabled"
                ELSE "absent",
     add    |-> IF view = "loaded"
                THEN IF disableAddParticipant(evaluation, azureUniqueId) THEN "disabled" ELSE "enabled"
                ELSE "absent",
     table  |-> IF view = "loaded" THEN participants ELSE <<>>,
     dialog |-> IF view = "loaded"
                THEN IF panelOpen THEN "open" ELSE "closed"
                ELSE "absent"]

\* the evaluations the owner passes to the mounted view
NomEvaluations ==
    [id : EvalIds, progression : {"Nomination", "Preparation"},
     participants : {<<P1>>, <<P1, P2>>}]

\* the state after the first render: the participants query is in flight
NomInit ==
    /\ evaluation \in NomEvaluations
    /\ azureUniqueId \in {"u1", "u2"}
    /\ panelOpen = FALSE
    /\ loadingQuery = TRUE
    /\ errorQuery = Undefined
    /\ errorMutation = Undefined
    /\ cache = [e \in EvalIds |-> <<>>]
    /\ inFlight = <<>>
    /\ queriesSent = 1
    /\ created = 0
    /\ screen = render

\* a step of the view that calls no callback prop; the view renders again
NomEvent(name) ==
    /\ lastEvent' = name
    /\ calls' = <<>>
    /\ screen' = render'
    /\ UNCHANGED <<formVars, qaVars>>

\* the participants query of the rendered evaluation returns its list
queryCompleted ==
    /\ loadingQuery
    /\ loadingQuery' = FALSE
    /\ cache' = [cache EXCEPT ![evaluation.id] = <<evaluation.participants>>]
    /\ UNCHANGED <<evaluation, azureUniqueId, panelOpen, errorQuery, errorMutation,
                   inFlight, queriesSent, created>>
    /\ NomEvent("queryCompleted")

\* the participants query fails
queryFailed ==
    /\ loadingQuery
    /\ loadingQuery' = FALSE
    /\ errorQuery' = "ApolloError"
    /\ UNCHANGED <<evaluation, azureUniqueId, panelOpen, errorMutation, cache,
                   inFlight, queriesSent, created>>
    /\ NomEvent("queryFailed")

\* the owner renders the view with another evaluation.  The query text holds
\* evaluation.id (line 187): another id is another query, answered from the
\* cache when its list is there and sent over the network otherwise.  The
\* state of useMutation and of useState is kept.
evaluationPropChange(ev) ==
    /\ evaluation' = ev
    /\ IF ev.id = evaluation.id
       THEN UNCHANGED <<loadingQuery, errorQuery, queriesSent>>
       ELSE /\ errorQuery' = Undefined
            /\ IF cache[ev.id] # <<>>
               THEN /\ loadingQuery' = FALSE
                    /\ UNCHANGED queriesSent
               ELSE /\ queriesSent < MaxQueries
                    /\ loadingQuery' = TRUE
                    /\ queriesSent' = queriesSent + 1
    /\ UNCHANGED <<azureUniqueId, panelOpen, errorMutation, cache, inFlight, created>>
    /\ NomEvent("evaluationPropChange")

\* onClick of the Finish Nomination button
onNextStepClick ==
    /\ screen.finish = "enabled"
    /\ calls' = <<Call("onNextStep", <<>>)>>
    /\ lastEvent' = "onNextStepClick"
    /\ UNCHANGED <<formVars, qaVars, nomVars>>

\* onClick of the Add Person button
addPersonClick ==
    /\ screen.add = "enabled"
    /\ panelOpen' = TRUE
    /\ UNCHANGED <<evaluation, azureUniqueId, loadingQuery, errorQuery, errorMutation,
                   cache, inFlight, queriesSent, created>>
    /\ NomEvent("addPersonClick")

\* onCloseClick of the AddNomineeDialog
onCloseClick ==
    /\ screen.dialog = "open"
    /\ panelOpen' = FALSE
    /\ UNCHANGED <<evaluation, azureUniqueId, loadingQuery, errorQuery, errorMutation,
                   cache, inFlight, queriesSent, created>>
    /\ NomEvent("onCloseClick")

\* onNomineeSelected of the AddNomineeDialog: createParticipant(azureUniqueId,
\* evaluation.id, organization, role) sends the mutation
onNomineeSelected(uid, role, organization) ==
    /\ screen.dialog = "open"
    /\ created + Len(inFlight) < MaxMutations
    /\ inFlight' = Append(inFlight, [azureUniqueId |-> uid, evaluationId |-> evaluation.id,
                                     organization |-> organization, role |-> role])
    /\ UNCHANGED <<evaluation, azureUniqueId, panelOpen, loadingQuery, errorQuery,
                   errorMutation, cache, queriesSent, created>>
    /\ NomEvent("onNomineeSelected")

RemoveAt(seq, i) == [j \in 1..(Len(seq) - 1) |-> IF j < i THEN seq[j] ELSE seq[j + 1]]

\* the record the server returns for a request: a participant with a new id
createdParticipant(request) ==
    [id |-> 3 + created, azureUniqueId |-> request.azureUniqueId,
     role |-> request.role, organization |-> request.organization]

\* variant of update: the new record is put in front
update_prepend(c, createParticipant) ==
    [e \in EvalIds |-> IF c[e] = <<>> THEN <<>> ELSE << <<createParticipant>> \o c[e][1] >>]

\* the update option of useMutation: cache.modify runs the participants modifier
\* on every participants field the cache holds and returns
\* [...existingParticipants, newParticipantRef]
update(c, createParticipant) ==
    [e \in EvalIds |-> IF c[e] = <<>> THEN <<>> ELSE <<Append(c[e][1], createParticipant)>>]

\* the i-th mutation in flight succeeds
mutationCompleted(i) ==
    /\ inFlight' = RemoveAt(inFlight, i)
    /\ cache' = update(cache, createdParticipant(inFlight[i]))
    /\ created' = created + 1
    /\ UNCHANGED <<evaluation, azureUniqueId, panelOpen, loadingQuery, errorQuery,
                   errorMutation, queriesSent>>
    /\ NomEvent("mutationCompleted")

\* the i-th mutation in flight fails: useMutation returns its error
mutationFailed(i) ==
    /\ inFlight' = RemoveAt(inFlight, i)
    /\ errorMutation' = "ApolloError"
    /\ created' = created + 1
    /\ UNCHANGED <<evaluation, azureUniqueId, panelOpen, loadingQuery, errorQuery,
                   cache, queriesSent>>
    /\ NomEvent("mutationFailed")

NomNext ==
    \/ queryCompleted
    \/ queryFailed
    \/ \E ev \in NomEvaluations : evaluationPropChange(ev)
    \/ onNextStepClick
    \/ addPersonClick
    \/ onCloseClick
    \/ \E n \in Nominees : onNomineeSelected(n[1], n[2], n[3])
    \/ \E i \in 1..Len(inFlight) : mutationCompleted(i)
    \/ \E i \in 1..Len(inFlight) : mutationFailed(i)

-----------------------------------------------------------------------------
(* The two permission gates as functions of the evaluation and the user *)

ParticipantLists ==
    {<<>>}
    \cup {<<Participant(1, u, r)>> : u \in {"u1", "u2"}, r \in Role}
    \cup {<<Participant(1, "u1", r1), Participant(2, "u2", r2)>> : r1 \in Role, r2 \in Role}
    \cup {<<Participant(1, "u2", r1), Participant(2, "u1", r2)>> : r1 \in Role, r2 \in Role}

\* every stage, and every list of at most two participants with distinct
\* azureUniqueIds (data model: one participant per user in an evaluation)
GateEvaluations == [id : {"e1"}, progression : Progression, participants : ParticipantLists]

\* a mounted view whose query has loaded
GateInit ==
    /\ evaluation \in GateEvaluations
    /\ azureUniqueId \in AzureIds
    /\ panelOpen = FALSE
    /\ loadingQuery = FALSE
    /\ errorQuery = Undefined
    /\ errorMutation = Undefined
    /\ cache = [e \in EvalIds |-> <<evaluation.participants>>]
    /\ inFlight = <<>>
    /\ queriesSent = 1
    /\ created = 0
    /\ screen = render

\* the owner renders the view with the same evaluation at another stage
gateEvaluationChange ==
    /\ \E pr \in Progression : evaluation' = [evaluation EXCEPT !.progression = pr]
    /\ UNCHANGED <<azureUniqueId, panelOpen, loadingQuery, errorQuery, errorMutation,
                   cache, inFlight, queriesSent, created>>
    /\ NomEvent("evaluationPropChange")

\* another user is logged in
gateUserChange ==
    /\ \E uid \in AzureIds : azureUniqueId' = uid
    /\ UNCHANGED <<evaluation, panelOpen, loadingQuery, errorQuery, errorMutation,
                   cache, inFlight, queriesSent, created>>
    /\ NomEvent("userChange")

GateNext ==
    \/ gateEvaluationChange
    \/ gateUserChange
    \/ onNextStepClick
    \/ addPersonClick
    \/ onCloseClick

-----------------------------------------------------------------------------
(* Specifications: one mounted component each; the cells of the components  *)
(* that are not mounted keep a fixed value                                   *)

FormIdle ==
    /\ connectedQuestion = "q1"
    /\ possibleAssignees = <<>>
    /\ possibleAssigneesDetails = <<>>
    /\ title = ""
    /\ titleValidity = "default"
    /\ assignedToId = Undefined
    /\ assignedToValidity = "default"
    /\ now = 0
    /\ dueDate = 0
    /\ priority = "High"
    /\ description = ""
    /\ titleEffectPending = FALSE
    /\ assigneeEffectPending = FALSE

QAIdle == answer = [id |-> "a1", progression |-> "Nomination", severity |-> "NA", text |-> ""]

NomIdle ==
    /\ evaluation = [id |-> "e1", progression |-> "Nomination", participants |-> <<>>]
    /\ azureUniqueId = "u1"
    /\ panelOpen = FALSE
    /\ loadingQuery = TRUE
    /\ errorQuery = Undefined
    /\ errorMutation = Undefined
    /\ cache = [e \in EvalIds |-> <<>>]
    /\ inFlight = <<>>
    /\ queriesSent = 1
    /\ created = 0
    /\ screen = render

NoCalls == calls = <<>> /\ lastEvent = "mount"

Init     == FormInit /\ QAIdle /\ NomIdle /\ NoCalls
Next     == FormNext
Spec     == Init /\ [][Next]_vars

InitQA   == FormIdle /\ QAInit /\ NomIdle /\ NoCalls
SpecQA   == InitQA /\ [][QANext]_vars

InitNom  == FormIdle /\ QAIdle /\ NomInit /\ NoCalls
SpecNom  == InitNom /\ [][NomNext]_vars

InitGate == FormIdle /\ QAIdle /\ GateInit /\ NoCalls
SpecGate == InitGate /\ [][GateNext]_vars


-----------------------------------------------------------------------------
(* Properties of ActionCreateForm, checked under Spec *)

titleIsEmpty == title = ""

assigneeIsResolved ==
    \E i \in 1..Len(possibleAssignees) : possibleAssignees[i].azureUniqueId = assignedToId

quiescent == ~titleEffectPending /\ ~assigneeEffectPending

\* C1: a Create click made with an empty title or without a resolved assignee
\* does not call onActionCreate, sets the validity of every field that failed
\* its validator to "error" and leaves the validity of a field that passed as
\* it was.
C1_InvalidCreateAborts ==
    [][ (lastEvent' = "onLocalCreateClick" /\ (titleIsEmpty \/ ~assigneeIsResolved)) =>
           /\ \A i \in 1..Len(calls') : calls'[i].fn # "onActionCreate"
           /\ titleValidity' = IF titleIsEmpty THEN "error" ELSE titleValidity
           /\ assignedToValidity' = IF ~assigneeIsResolved THEN "error" ELSE assignedToValidity
      ]_vars

\* a failed click on a form whose assignee is resolved and whose title is empty:
\* the title is marked, the assignee indicator is still the initial one
C1_Witness ==
    /\ lastEvent = "onLocalCreateClick"
    /\ calls = <<>>
    /\ titleIsEmpty /\ assigneeIsResolved
    /\ titleValidity = "error"
    /\ assignedToValidity = "default"

\* C2: a Create click made with a non-empty title and a resolved assignee calls
\* onActionCreate exactly once, with id "", onHold false, no notes, the
\* connectedQuestion prop, the current title, description, due date and
\* priority, and the member of possibleAssignees that has the selected key;
\* the due date is the time of mount and the priority is High until their
\* controls change them.
C2_ValidCreateEmitsAction ==
    /\ dueDate = now /\ priority = "High"
    /\ [][dueDate' # dueDate => lastEvent' = "setDueDate"]_vars
    /\ [][priority' # priority => lastEvent' = "setPriority"]_vars
    /\ [][ (lastEvent' = "onLocalCreateClick" /\ ~titleIsEmpty /\ assigneeIsResolved) =>
              /\ Len(calls') = 1
              /\ calls'[1].fn = "onActionCreate"
              /\ Len(calls'[1].arg) = 1
              /\ LET action == calls'[1].arg[1]
                 IN  /\ action.id = ""
                     /\ action.onHold = FALSE
                     /\ action.notes = <<>>
                     /\ action.question = connectedQuestion
                     /\ action.title = title
                     /\ action.description = description
                     /\ action.dueDate = dueDate
                     /\ action.priority = priority
                     /\ action.createDate = now
                     /\ action.assignedTo.azureUniqueId = assignedToId
                     /\ \E i \in 1..Len(possibleAssignees) :
                           action.assignedTo = possibleAssignees[i]
         ]_vars

\* a click that created an action for the second assignee with an edited
\* priority and the due date of the mount, after time has passed
C2_Witness ==
    /\ lastEvent = "onLocalCreateClick"
    /\ Len(calls) = 1
    /\ calls[1].arg[1].title = "b"
    /\ calls[1].arg[1].assignedTo = P2
    /\ calls[1].arg[1].priority = "Low"
    /\ calls[1].arg[1].dueDate = 0
    /\ calls[1].arg[1].createDate = MaxTime
    /\ calls[1].arg[1].description = "d"

\* the transitions of one field's indicator that the claim allows
AllowedValidityStep(old, new, failedClick, validAfter) ==
    \/ old = "default" /\ new = "error"   /\ failedClick
    \/ old = "error"   /\ new = "success" /\ validAfter
    \/ old = "success" /\ new = "error"   /\ (~validAfter \/ failedClick)

\* C9: each of the two validity indicators changes only default -> error by a
\* Create click that fails the field's validator, error -> success when the
\* field is valid, success -> error when the field is invalid or by a failed
\* Create click; it never leaves default otherwise and never returns to it.
C9_ValidityTransitions ==
    [][ /\ titleValidity' # titleValidity =>
             AllowedValidityStep(titleValidity, titleValidity',
                                 lastEvent' = "onLocalCreateClick" /\ titleIsEmpty,
                                 ~titleIsEmpty')
        /\ assignedToValidity' # assignedToValidity =>
             AllowedValidityStep(assignedToValidity, assignedToValidity',
                                 lastEvent' = "onLocalCreateClick" /\ ~assigneeIsResolved,
                                 assigneeIsResolved')
      ]_vars

\* both indicators have left default after a failed click: the assignee's has
\* gone on to success, the title's shows error after its effect has run
C9_Witness ==
    /\ titleValidity = "error"
    /\ assignedToValidity = "success"
    /\ lastEvent = "titleEffect"
    /\ ~titleEffectPending
    /\ assigneeIsResolved

\* C10: when no effect is pending, an indicator that shows error belongs to a
\* field that is invalid and one that shows success to a field that is valid,
\* so the "required" helper is shown only on a field that is invalid.
C10_QuiescentValidityAgrees ==
    quiescent =>
        /\ titleValidity = "error" => titleIsEmpty
        /\ titleValidity = "success" => ~titleIsEmpty
        /\ assignedToValidity = "error" => ~assigneeIsResolved
        /\ assignedToValidity = "success" => assigneeIsResolved
        /\ titleHelperText = "required" => titleIsEmpty
        /\ assignedToError => ~assigneeIsResolved

\* a quiescent form whose two indicators differ: the selected person has no
\* participant, the title has been corrected
C10_Witness ==
    /\ quiescent
    /\ assignedToId # Undefined
    /\ assignedToValidity = "error"
    /\ titleValidity = "success"

-----------------------------------------------------------------------------
(* Properties of QuestionAndAnswerForm, checked under SpecQA *)

\* C8: an edit calls onAnswerChange exactly once with a complete Answer: the
\* answer prop with the severity replaced after a severity edit, with the text
\* replaced after a text edit, every other field as in the prop.
C8_EditEmitsFullAnswer ==
    /\ lastEvent = "onSeveritySelected" =>
          /\ Len(calls) = 1
          /\ calls[1].fn = "onAnswerChange"
          /\ Len(calls[1].arg) = 1
          /\ DOMAIN calls[1].arg[1] = DOMAIN answer
          /\ calls[1].arg[1].severity \in Severity
          /\ \A f \in DOMAIN answer \ {"severity"} : calls[1].arg[1][f] = answer[f]
    /\ lastEvent = "onMarkdownChange" =>
          /\ Len(calls) = 1
          /\ calls[1].fn = "onAnswerChange"
          /\ Len(calls[1].arg) = 1
          /\ DOMAIN calls[1].arg[1] = DOMAIN answer
          /\ calls[1].arg[1].text \in Texts
          /\ \A f \in DOMAIN answer \ {"text"} : calls[1].arg[1][f] = answer[f]

\* a text edit that changed the text of an answer whose severity is High
C8_Witness ==
    /\ lastEvent = "onMarkdownChange"
    /\ Len(calls) = 1
    /\ calls[1].arg[1].text = "y"
    /\ answer.text = "x"
    /\ calls[1].arg[1].severity = "High"

-----------------------------------------------------------------------------
(* Properties of the permission gates, checked under SpecGate *)

\* the evaluation has a participant with the user's azureUniqueId whose role is
\* Facilitator or OrganizationLead
userIsLead(ev, uid) ==
    \E i \in 1..Len(ev.participants) :
        /\ ev.participants[i].azureUniqueId = uid
        /\ ev.participants[i].role \in {"Facilitator", "OrganizationLead"}

\* C3: with one participant per user, Finish Nomination is enabled exactly when
\* the progression is Nomination and the evaluation has a participant with the
\* user's azureUniqueId whose role is Facilitator or OrganizationLead; it is
\* disabled at every other progression.
C3_FinishNominationGate ==
    /\ disableProgression(evaluation, azureUniqueId)
          = ~(evaluation.progression = "Nomination" /\ userIsLead(evaluation, azureUniqueId))
    /\ screen.finish = "enabled"
          <=> (evaluation.progression = "Nomination" /\ userIsLead(evaluation, azureUniqueId))
    /\ evaluation.progression # "Nomination" => screen.finish = "disabled"

\* an OrganizationLead listed second has finished the nomination
C3_Witness ==
    /\ lastEvent = "onNextStepClick"
    /\ calls = <<Call("onNextStep", <<>>)>>
    /\ Len(evaluation.participants) = 2
    /\ evaluation.participants[2].azureUniqueId = azureUniqueId
    /\ evaluation.participants[2].role = "OrganizationLead"

\* C4: with one participant per user, Add Person is enabled exactly when the
\* evaluation has a participant with the user's azureUniqueId whose role is
\* Facilitator or OrganizationLead, whatever the progression.
C4_AddParticipantGate ==
    /\ disableAddParticipant(evaluation, azureUniqueId) = ~userIsLead(evaluation, azureUniqueId)
    /\ screen.add = "enabled" <=> userIsLead(evaluation, azureUniqueId)
    /\ \A pr \in Progression :
          disableAddParticipant([evaluation EXCEPT !.progression = pr], azureUniqueId)
             = disableAddParticipant(evaluation, azureUniqueId)

\* a Facilitator has opened the dialog after the Nomination stage
C4_Witness ==
    /\ lastEvent = "addPersonClick"
    /\ panelOpen
    /\ evaluation.progression = "Workshop"
    /\ userIsLead(evaluation, azureUniqueId)

-----------------------------------------------------------------------------
(* Properties of NominationView, checked under SpecNom *)

\* C5 as stated: whenever the mutation error is set the view shows "Could not
\* add participant", also while the query is loading.
C5_MutationErrorFirst ==
    errorMutation # Undefined => screen.text = "Could not add participant"

\* C5 as the code has it: the loading placeholder comes first, then the mutation
\* error, then the query error or missing data, then the loaded view.
C5_LoadingThenMutationError ==
    /\ loadingQuery => screen.text = "Loading..."
    /\ (~loadingQuery /\ errorMutation # Undefined) =>
          screen.text = "Could not add participant"
    /\ (~loadingQuery /\ errorMutation = Undefined
          /\ (errorQuery # Undefined \/ participants = <<>>)) =>
          screen.text = "Could not load participants"
    /\ (~loadingQuery /\ errorMutation = Undefined
          /\ errorQuery = Undefined /\ participants # <<>>) =>
          (screen.text = "" /\ screen.table = participants)

\* the mutation and the query have both failed and the query is not loading
C5_Witness ==
    /\ ~loadingQuery
    /\ errorMutation # Undefined
    /\ errorQuery # Undefined
    /\ screen.text = "Could not add participant"

\* the query is loading, has failed or has no data, or the mutation has failed
Blocked ==
    \/ loadingQuery
    \/ errorQuery # Undefined
    \/ participants = <<>>
    \/ errorMutation # Undefined

\* C6: while the query is loading, has failed or has no data, or the mutation
\* has failed, the view shows only its message: no table, no button, no
\* dialog; no step from such a state sends a createParticipant mutation or
\* calls onNextStep.
C6_BlockedShowsOnlyMessage ==
    /\ [](Blocked =>
            /\ screen.text \in {"Loading...", "Could not add participant",
                                "Could not load participants"}
            /\ screen.finish = "absent"
            /\ screen.add = "absent"
            /\ screen.table = <<>>
            /\ screen.dialog = "absent")
    /\ [][Blocked =>
            /\ Len(inFlight') <= Len(inFlight)
            /\ \A i \in 1..Len(calls') : calls'[i].fn # "onNextStep"
         ]_vars

\* the mutation failed while the dialog was open and another mutation is in
\* flight: the dialog is gone
C6_Witness ==
    /\ errorMutation # Undefined
    /\ ~loadingQuery
    /\ panelOpen
    /\ Len(inFlight) = 1
    /\ screen.dialog = "absent"

\* the list `longer` is `shorter` followed by one record, made from a request
\* in flight, whose id no record of `shorter` has
GrownByReturned(shorter, longer) ==
    /\ Len(longer) = Len(shorter) + 1
    /\ \A j \in 1..Len(shorter) : longer[j] = shorter[j]
    /\ \E i \in 1..Len(inFlight) :
          /\ longer[Len(longer)].azureUniqueId = inFlight[i].azureUniqueId
          /\ longer[Len(longer)].role = inFlight[i].role
          /\ longer[Len(longer)].organization = inFlight[i].organization
    /\ \A j \in 1..Len(shorter) : shorter[j].id # longer[Len(longer)].id

\* C7: a successful createParticipant mutation appends the returned record to
\* the cached participant list (the rendered one, when there is one), keeps
\* the entries that were there in their order, and sends no participants
\* query; a failed mutation leaves the cached lists as they were.
C7_MutationAppendsToCache ==
    /\ [][ lastEvent' = "mutationCompleted" =>
              /\ \A e \in EvalIds :
                    IF cache[e] = <<>> THEN cache'[e] = <<>>
                    ELSE cache'[e] # <<>> /\ GrownByReturned(cache[e][1], cache'[e][1])
              /\ participants # <<>> =>
                    (participants' # <<>> /\ GrownByReturned(participants[1], participants'[1]))
              /\ queriesSent' = queriesSent
              /\ loadingQuery' = loadingQuery
         ]_vars
    /\ [][ lastEvent' = "mutationFailed" =>
              (cache' = cache /\ queriesSent' = queriesSent) ]_vars

\* the table shows the two participants of the query followed by a created one
C7_Witness ==
    /\ lastEvent = "mutationCompleted"
    /\ screen.table # <<>>
    /\ Len(screen.table[1]) = 3
    /\ screen.table[1][1] = P1 /\ screen.table[1][2] = P2
    /\ screen.table[1][3].azureUniqueId = "u3"
    /\ queriesSent = 1

=============================================================================
